---- MODULE Spec2Model ----
(***************************************************************************)
(* unfunny_bot (src/src/main.rs): a one-shot generator.  main loads the    *)
(* prompt store, picks a prompt, interpolates its {tokens} from fill-in    *)
(* catalogs, asks the completion provider for a structured reply, censors  *)
(* the reply and either posts the text or renders, uploads and posts a     *)
(* meme.                                                                   *)
(*                                                                         *)
(* Strings are sequences of one-character strings.  Reply texts are        *)
(* sequences of words.                                                     *)
(***************************************************************************)
EXTENDS Integers, Sequences, FiniteSets, TLC

VARIABLES
    pc,            \* position of main
    outcome,       \* "running", "ok", "err" (main returned Err), "panic"
    lineNo,        \* lines of resources/prompts.txt read so far
    lastLine,      \* the line load_prompts read last
    prompts,       \* load_prompts' vector of Prompt
    prompt,        \* the chosen Prompt
    files,         \* resources/<name>.txt: name -> lines, for the files that exist
    mi,            \* matches of find_iter consumed by interpolate's loop
    interpolated,  \* interpolate's accumulating string
    draws,         \* the values choose_random_item returned, in order
    request,       \* what was sent to the completion provider
    response,      \* the function arguments the provider returned
    renders,       \* the calls of generate_image that drew captions
    uploads,       \* media uploads that succeeded
    posts,         \* status posts that were sent
    nQuery, nUpload, nPost   \* network operations attempted

vars == <<pc, outcome, lineNo, lastLine, prompts, prompt, files, mi, interpolated,
          draws, request, response, renders, uploads, posts, nQuery, nUpload, nPost>>

----------------------------------------------------------------------------
(* Bounds *)

MaxLines == 2       \* lines read from the prompt store
MaxFields == 3      \* ';'-separated fields of a generated store line
MaxBodyLen == 6     \* length of a generated template body
MaxImageWidth == 3  \* image width, in pixels
MaxTextWidth == 4   \* measured caption width, in pixels

----------------------------------------------------------------------------
(* Strings *)

STR_text == <<"t", "e", "x", "t">>
STR_image == <<"i", "m", "a", "g", "e">>

Whitespace == {" "}

\* [a-z_\-] of the token regex
TokenChars == {"a", "b", "c", "d", "e", "f", "g", "h", "i", "j", "k", "l", "m",
               "n", "o", "p", "q", "r", "s", "t", "u", "v", "w", "x", "y", "z",
               "_", "-"}

Drop(s, n) == SubSeq(s, n + 1, Len(s))

Take(s, n) == SubSeq(s, 1, n)

\* str::starts_with
StartsWith(s, p) == Len(s) >= Len(p) /\ Take(s, Len(p)) = p

\* str::find: index of the first occurrence of needle in s, 0 when there is none
Find(s, needle) ==
    LET hits == {i \in 1..(Len(s) - Len(needle) + 1) :
                    SubSeq(s, i, i + Len(needle) - 1) = needle}
    IN IF hits = {} THEN 0 ELSE CHOOSE i \in hits : \A j \in hits : i <= j

\* str::trim
RECURSIVE TrimStart(_)
TrimStart(s) == IF s # <<>> /\ s[1] \in Whitespace THEN TrimStart(Drop(s, 1)) ELSE s

RECURSIVE TrimEnd(_)
TrimEnd(s) ==
    IF s # <<>> /\ s[Len(s)] \in Whitespace THEN TrimEnd(Take(s, Len(s) - 1)) ELSE s

Trim(s) == TrimEnd(TrimStart(s))

\* str::split(";"): n delimiters give n + 1 pieces
RECURSIVE Split(_, _)
Split(s, d) ==
    LET i == Find(s, <<d>>)
    IN IF i = 0 THEN <<s>> ELSE <<Take(s, i - 1)>> \o Split(Drop(s, i), d)

\* Replacen1 with the pattern and the replacement exchanged
ReplacenSwapped(s, item, value) ==
    LET i == Find(s, value)
    IN IF i = 0 THEN s ELSE Take(s, i - 1) \o item \o Drop(s, i + Len(value) - 1)

\* str::replacen(item, value, 1)
Replacen1(s, item, value) ==
    LET i == Find(s, item)
    IN IF i = 0 THEN s ELSE Take(s, i - 1) \o value \o Drop(s, i + Len(item) - 1)

----------------------------------------------------------------------------
(* Prompt store *)

PromptTypeFrom(value) ==
    IF value = STR_text THEN "Text"
    ELSE IF value = STR_image THEN "Image"
    ELSE "Text"

PromptFrom(value) ==
    [prompt_type |-> PromptTypeFrom(Trim(value[1])), prompt |-> Trim(value[2])]

NoPrompt == [prompt_type |-> "None", prompt |-> <<>>]

\* LoadLine with "at least two fields" for "exactly two"
LoadLineAtLeastTwo(line) ==
    IF ~StartsWith(line, <<"#">>)
    THEN LET splitted_line == Split(line, ";")
         IN IF Len(splitted_line) >= 2 THEN <<PromptFrom(splitted_line)>> ELSE <<>>
    ELSE <<>>

\* what one iteration of load_prompts' loop adds to the vector
LoadLine(line) ==
    IF ~StartsWith(line, <<"#">>)
    THEN LET splitted_line == Split(line, ";")
         IN IF Len(splitted_line) = 2 THEN <<PromptFrom(splitted_line)>> ELSE <<>>
    ELSE <<>>

----------------------------------------------------------------------------
(* Fill-in catalogs and interpolation *)

\* FillIns with the comment lines kept
FillInsWithComments(lines) == lines

\* Prompt::load_fill_in_file, for a file that exists
FillIns(lines) == SelectSeq(lines, LAMBDA line : ~StartsWith(line, <<"#">>))

\* where a match of \{[a-z_\-]+\} starting at i ends (exclusive), 0 when none does
MatchEnd(s, i) ==
    IF s[i] # "{" THEN 0
    ELSE LET stops == {j \in (i + 1)..Len(s) : s[j] \notin TokenChars}
         IN IF stops = {} THEN 0
            ELSE LET j == CHOOSE k \in stops : \A l \in stops : k <= l
                 IN IF j > i + 1 /\ s[j] = "}" THEN j + 1 ELSE 0

\* Regex::find_iter: the leftmost non-overlapping matches, as [start, end)
RECURSIVE FindFrom(_, _)
FindFrom(s, i) ==
    IF i > Len(s) THEN <<>>
    ELSE LET e == MatchEnd(s, i)
         IN IF e > 0 THEN <<[start |-> i, end |-> e]>> \o FindFrom(s, e)
            ELSE FindFrom(s, i + 1)

FindIter(s) == FindFrom(s, 1)

\* m.as_str()
MatchStr(s, m) == SubSeq(s, m.start, m.end - 1)

\* strip_prefix("{") then strip_suffix("}")
FillInFile(item) == SubSeq(item, 2, Len(item) - 1)

----------------------------------------------------------------------------
(* Generated inputs *)

Fields == {STR_text,
           <<" ">> \o STR_image \o <<" ">>,
           <<"\"", "{", "a", "}", "\"", "{", "b", "}">>,
           <<"#">>}

RECURSIVE Join(_)
Join(fs) == IF Len(fs) = 1 THEN fs[1] ELSE fs[1] \o <<";">> \o Join(Drop(fs, 1))

Lines == {Join(fs) : fs \in UNION {[1..n -> Fields] : n \in 1..MaxFields}}

BodyChars == {"{", "a", "}"}

Bodies == UNION {[1..n -> BodyChars] : n \in 0..MaxBodyLen}

NoFiles == [n \in {} |-> <<>>]

CatalogFiles == {<<>>,
                 <<<<"#", "a">>>>,
                 <<<<"#", "a">>, <<"a">>, <<"a", "a">>>>,
                 <<<<"a">>, <<"{", "a", "}">>>>}

CatalogDirs == {NoFiles} \cup {[n \in {<<"a">>} |-> f] : f \in CatalogFiles}

\* the directories of the runs of main: catalog a and catalog b, each absent, all
\* comment, or with values
Absent == <<<<"absent">>>>

FilesA == {Absent, <<<<"#", "a">>>>, <<<<"a">>, <<"a", "\"", "a">>>>}

FilesB == {Absent, <<<<"#", "a">>>>, <<<<"#", "a">>, <<"b">>>>}

DirOf(fa, fb) ==
    [n \in {m \in {<<"a">>, <<"b">>} : (IF m = <<"a">> THEN fa ELSE fb) # Absent} |->
        IF n = <<"a">> THEN fa ELSE fb]

RunDirs == {DirOf(fa, fb) : fa \in FilesA, fb \in FilesB}

----------------------------------------------------------------------------
(* main, up to the completion request *)

Fail(how) == /\ pc' = "exit"
             /\ outcome' = how

\* File::open or next_line fails in load_prompts: the ? operators return Err
LoadPromptsFail ==
    /\ pc = "load"
    /\ Fail("err")
    /\ UNCHANGED <<lineNo, lastLine, prompts, prompt, files, mi, interpolated, draws,
                   request, response, renders, uploads, posts, nQuery, nUpload, nPost>>

\* one iteration of load_prompts' loop
ReadLine ==
    /\ pc = "load"
    /\ lineNo < MaxLines
    /\ \E line \in Lines :
          /\ lastLine' = line
          /\ prompts' = prompts \o LoadLine(line)
    /\ lineNo' = lineNo + 1
    /\ UNCHANGED <<pc, outcome, prompt, files, mi, interpolated, draws,
                   request, response, renders, uploads, posts, nQuery, nUpload, nPost>>

\* next_line returns None: load_prompts returns the vector
EndOfPrompts ==
    /\ pc = "load"
    /\ pc' = "choose"
    /\ UNCHANGED <<outcome, lineNo, lastLine, prompts, prompt, files, mi, interpolated,
                   draws, request, response, renders, uploads, posts, nQuery, nUpload,
                   nPost>>

\* prompts.choose(..).unwrap(), and interpolate's clone of the body
ChoosePrompt ==
    /\ pc = "choose"
    /\ IF prompts = <<>>
       THEN /\ Fail("panic")
            /\ UNCHANGED <<prompt, interpolated>>
       ELSE /\ \E i \in 1..Len(prompts) :
                  /\ prompt' = prompts[i]
                  /\ interpolated' = prompts[i].prompt
            /\ pc' = "interpolate"
            /\ UNCHANGED outcome
    /\ UNCHANGED <<lineNo, lastLine, prompts, files, mi, draws,
                   request, response, renders, uploads, posts, nQuery, nUpload, nPost>>

\* one iteration of interpolate's loop over find_iter(&self.prompt)
InterpolateStep ==
    /\ pc = "interpolate"
    /\ mi < Len(FindIter(prompt.prompt))
    /\ LET item == MatchStr(prompt.prompt, FindIter(prompt.prompt)[mi + 1])
           fill_in_file == FillInFile(item)
       IN IF fill_in_file \notin DOMAIN files
          THEN /\ Fail("err")
               /\ UNCHANGED <<mi, interpolated, draws>>
          ELSE IF FillIns(files[fill_in_file]) = <<>>
          THEN /\ Fail("panic")
               /\ UNCHANGED <<mi, interpolated, draws>>
          ELSE /\ \E k \in 1..Len(FillIns(files[fill_in_file])) :
                     LET value == FillIns(files[fill_in_file])[k]
                     IN /\ draws' = Append(draws, value)
                        /\ interpolated' = Replacen1(interpolated, item, value)
               /\ mi' = mi + 1
               /\ UNCHANGED <<pc, outcome>>
    /\ UNCHANGED <<lineNo, lastLine, prompts, prompt, files,
                   request, response, renders, uploads, posts, nQuery, nUpload, nPost>>

\* the loop ends: interpolate returns Ok(interpolated)
InterpolateDone ==
    /\ pc = "interpolate"
    /\ mi = Len(FindIter(prompt.prompt))
    /\ pc' = "query"
    /\ UNCHANGED <<outcome, lineNo, lastLine, prompts, prompt, files, mi, interpolated,
                   draws, request, response, renders, uploads, posts, nQuery, nUpload,
                   nPost>>

NoRequest == [name |-> "", functions |-> [name |-> "", required |-> {}],
              content |-> <<>>, model |-> ""]

NoResponse == [f \in {} |-> <<>>]

\* the fields every initial state shares
Fresh ==
    /\ outcome = "running"
    /\ mi = 0
    /\ draws = <<>>
    /\ request = NoRequest
    /\ response = NoResponse
    /\ renders = <<>>
    /\ uploads = 0
    /\ posts = <<>>
    /\ nQuery = 0
    /\ nUpload = 0
    /\ nPost = 0

\* load_prompts and the choice of the prompt
InitLoad ==
    /\ Fresh
    /\ pc = "load"
    /\ lineNo = 0
    /\ lastLine = <<>>
    /\ prompts = <<>>
    /\ prompt = NoPrompt
    /\ interpolated = <<>>
    /\ files = NoFiles

NextLoad == LoadPromptsFail \/ ReadLine \/ EndOfPrompts \/ ChoosePrompt

SpecLoad == InitLoad /\ [][NextLoad]_vars

\* interpolate, on every body up to MaxBodyLen
InitInterp ==
    /\ Fresh
    /\ pc = "interpolate"
    /\ lineNo = 1
    /\ \E body \in Bodies :
          /\ lastLine = STR_text \o <<";">> \o body
          /\ prompt = [prompt_type |-> "Text", prompt |-> body]
          /\ interpolated = body
    /\ prompts = <<prompt>>
    /\ files \in CatalogDirs

NextInterp == InterpolateStep \/ InterpolateDone

SpecInterp == InitInterp /\ [][NextInterp]_vars

----------------------------------------------------------------------------
(* The completion request, the censor and the renderer *)

UsizeModulus == 256   \* usize, scaled down from 2^64

Offsets == <<4, 3, 2, 1, 0>>   \* 4 - offset, for offset in 0..=4

\* get_function_call with the Text arm's name in both arms
AlwaysSetText(prompt_type) == "set_text"

\* Prompt::get_function_call
get_function_call(prompt_type) ==
    IF prompt_type = "Text" THEN "set_text" ELSE "set_meme"

\* Prompt::get_functions
get_functions(prompt_type) ==
    IF prompt_type = "Text"
    THEN [name |-> "set_text", required |-> {"text"}]
    ELSE [name |-> "set_meme", required |-> {"top_text", "bottom_text"}]

Models == {"gpt-3.5-turbo", "gpt-4"}

\* words of the censor's sets that the replies below use
Standard == {<<"s", "h", "i", "t">>, <<"a", "s", "s">>}

Sex == {<<"s", "e", "x">>, <<"p", "o", "r", "n">>}

\* Censor::Standard + Censor::Sex - "sex" - "ass"
Censored == (Standard \cup Sex) \ {<<"s", "e", "x">>, <<"a", "s", "s">>}

\* a censored word with all but its first start_offset and last end_offset
\* characters replaced by the grawlix
MaskWord(word, grawlix, start_offset, end_offset) ==
    [i \in 1..Len(word) |->
        IF i > start_offset /\ i <= Len(word) - end_offset THEN grawlix ELSE word[i]]

\* replace_with_offsets left out
NoCensor(text) == text

\* censor.replace_with_offsets(text, "*", 1, 0)
replace_with_offsets(text) ==
    [i \in 1..Len(text) |->
        IF text[i] \in Censored THEN MaskWord(text[i], "*", 1, 0) ELSE text[i]]

Texts == {<<<<"i">>, <<"a", "s", "s">>>>,
          <<<<"s", "h", "i", "t">>, <<"s", "e", "x">>, <<"p", "o", "r", "n">>>>}

FieldNames == {"text", "top_text", "bottom_text"}

\* the function arguments a reply can hold: any of the fields, as strings
Replies == UNION {[fs -> Texts] : fs \in SUBSET FieldNames}

\* as_str with a missing field read as the empty string
as_str_or_default(reply, field) ==
    IF field \in DOMAIN reply THEN <<reply[field]>> ELSE <<<<>>>>

\* response[field].as_str(): <<s>> for Some(s), <<>> for None
as_str(reply, field) == IF field \in DOMAIN reply THEN <<reply[field]>> ELSE <<>>

Quotes(s) == {i \in 1..Len(s) : s[i] = "\""}

NthQuote(s, n) == CHOOSE i \in Quotes(s) : Cardinality({j \in Quotes(s) : j < i}) = n - 1

\* get_image_from_prompt panics: matches[0] or matches[1] is out of bounds
ImagePanics(s) == Cardinality(Quotes(s)) < 2

\* get_image_from_prompt with the last quote for the second
BetweenFirstAndLastQuote(s) ==
    SubSeq(s, NthQuote(s, 1) + 1, NthQuote(s, Cardinality(Quotes(s))) - 1)

get_image_from_prompt(s) == SubSeq(s, NthQuote(s, 1) + 1, NthQuote(s, 2) - 1)

\* a - b on usize, release build
UsizeSub(a, b) == (a - b + UsizeModulus) % UsizeModulus

\* CaptionX without the comparison of the widths
CaptionXUnguarded(text_width, image_width) ==
    [x |-> UsizeSub(image_width, text_width) \div 2,
     underflow |-> image_width < text_width]

\* generate_image's x of one caption, and whether its subtraction underflowed
CaptionX(text_width, image_width) ==
    IF text_width < image_width
    THEN [x |-> UsizeSub(image_width, text_width) \div 2,
          underflow |-> image_width < text_width]
    ELSE [x |-> 0, underflow |-> FALSE]

\* the x of the draw_text calls of one caption, one per offset
DrawnAt(x) == [k \in 1..Len(Offsets) |-> x + Offsets[k]]

----------------------------------------------------------------------------
(* main, from the completion request on *)

\* query_chat_gpt: one request; Err from the proxy, the request or an empty choice
\* list, panic from a reply without function call or with unparsable arguments
Query ==
    /\ pc = "query"
    /\ nQuery' = nQuery + 1
    /\ \E model \in Models :
          request' = [name |-> get_function_call(prompt.prompt_type),
                      functions |-> get_functions(prompt.prompt_type),
                      content |-> interpolated,
                      model |-> model]
    /\ \/ /\ Fail("err")
          /\ UNCHANGED response
       \/ /\ Fail("panic")
          /\ UNCHANGED response
       \/ /\ response' \in Replies
          /\ pc' = "dispatch"
          /\ UNCHANGED outcome
    /\ UNCHANGED <<lineNo, lastLine, prompts, prompt, files, mi, interpolated, draws,
                   renders, uploads, posts, nUpload, nPost>>

\* the Text arm: censor the text and send_mastodon_msg(text, None)
TextBranch ==
    /\ pc = "dispatch"
    /\ prompt.prompt_type = "Text"
    /\ IF as_str(response, "text") = <<>>
       THEN /\ Fail("panic")
            /\ UNCHANGED <<posts, nPost>>
       ELSE LET text == replace_with_offsets(as_str(response, "text")[1])
            IN \/ /\ Fail("err")             \* MAST_INSTANCE or MAST_TOKEN is not set
                  /\ UNCHANGED <<posts, nPost>>
               \/ /\ nPost' = nPost + 1
                  /\ \/ /\ Fail("err")       \* the request did not get through
                        /\ UNCHANGED posts
                     \/ /\ posts' = Append(posts, [status |-> text, media |-> FALSE])
                        /\ \/ Fail("err")    \* the reply could not be read
                           \/ Fail("ok")
    /\ UNCHANGED <<lineNo, lastLine, prompts, prompt, files, mi, interpolated, draws,
                   request, response, renders, uploads, nQuery, nUpload>>

\* the Image arm up to the upload: censor both captions, get_image_from_prompt,
\* generate_image
ImageBranch ==
    /\ pc = "dispatch"
    /\ prompt.prompt_type = "Image"
    /\ IF as_str(response, "top_text") = <<>> \/ as_str(response, "bottom_text") = <<>>
          \/ ImagePanics(interpolated)
       THEN /\ Fail("panic")
            /\ UNCHANGED renders
       ELSE LET top_text == replace_with_offsets(as_str(response, "top_text")[1])
                bottom_text == replace_with_offsets(as_str(response, "bottom_text")[1])
                image_meme == get_image_from_prompt(interpolated)
            IN \/ /\ Fail("err")             \* no font, or no such base image
                  /\ UNCHANGED renders
               \/ /\ \E image_width \in 1..MaxImageWidth,
                        top_width \in 0..MaxTextWidth,
                        bottom_width \in 0..MaxTextWidth :
                        renders' = Append(renders,
                            [image |-> image_meme,
                             top_text |-> top_text,
                             bottom_text |-> bottom_text,
                             image_width |-> image_width,
                             top_width |-> top_width,
                             bottom_width |-> bottom_width,
                             top |-> CaptionX(top_width, image_width),
                             bottom |-> CaptionX(bottom_width, image_width),
                             top_at |-> DrawnAt(CaptionX(top_width, image_width).x),
                             bottom_at |-> DrawnAt(CaptionX(bottom_width, image_width).x)])
                  /\ \/ Fail("err")          \* image.save fails
                     \/ /\ pc' = "upload"
                        /\ UNCHANGED outcome
    /\ UNCHANGED <<lineNo, lastLine, prompts, prompt, files, mi, interpolated, draws,
                   request, response, uploads, posts, nQuery, nUpload, nPost>>

\* UploadImage with a failed upload passed over: the run goes on to the post
UploadImageSwallowed ==
    /\ pc = "upload"
    /\ nUpload' = nUpload + 1
    /\ \/ UNCHANGED uploads
       \/ uploads' = uploads + 1
    /\ pc' = "post"
    /\ UNCHANGED <<outcome, lineNo, lastLine, prompts, prompt, files, mi, interpolated,
                   draws, request, response, renders, posts, nQuery, nPost>>

\* send_mastodon_image
UploadImage ==
    /\ pc = "upload"
    /\ \/ /\ Fail("err")                     \* no environment, or no output file
          /\ UNCHANGED <<uploads, nUpload>>
       \/ /\ nUpload' = nUpload + 1
          /\ \/ /\ Fail("err")               \* the request did not get through
                /\ UNCHANGED uploads
             \/ /\ Fail("panic")             \* the server's reply holds no id
                /\ UNCHANGED uploads
             \/ /\ uploads' = uploads + 1
                /\ \/ Fail("err")            \* the reply could not be read
                   \/ /\ pc' = "post"
                      /\ UNCHANGED outcome
    /\ UNCHANGED <<lineNo, lastLine, prompts, prompt, files, mi, interpolated, draws,
                   request, response, renders, posts, nQuery, nPost>>

\* send_mastodon_msg("", image_id), the end of the Image arm
PostImage ==
    /\ pc = "post"
    /\ \/ /\ Fail("err")
          /\ UNCHANGED <<posts, nPost>>
       \/ /\ nPost' = nPost + 1
          /\ \/ /\ Fail("err")
                /\ UNCHANGED posts
             \/ /\ posts' = Append(posts, [status |-> <<>>, media |-> TRUE])
                /\ \/ Fail("err")
                   \/ Fail("ok")
    /\ UNCHANGED <<lineNo, lastLine, prompts, prompt, files, mi, interpolated, draws,
                   request, response, renders, uploads, nQuery, nUpload>>

\* main from interpolate on, for a store of one line
Init ==
    /\ Fresh
    /\ pc = "interpolate"
    /\ lineNo = 1
    /\ \E line \in {l \in Lines : LoadLine(l) # <<>>} :
          /\ lastLine = line
          /\ prompts = LoadLine(line)
    /\ prompt = prompts[1]
    /\ interpolated = prompt.prompt
    /\ files \in RunDirs

Next ==
    \/ InterpolateStep
    \/ InterpolateDone
    \/ Query
    \/ TextBranch
    \/ ImageBranch
    \/ UploadImage
    \/ PostImage

Spec == Init /\ [][Next]_vars

----------------------------------------------------------------------------
(* Claims about interpolate and load_prompts *)

Matches == FindIter(prompt.prompt)

\* body from position pos on, with match k, k + 1, ... replaced by vals[k], vals[k + 1], ...
RECURSIVE SpliceFrom(_, _, _, _, _)
SpliceFrom(body, pos, ms, vals, k) ==
    IF k > Len(ms) THEN Drop(body, pos - 1)
    ELSE SubSeq(body, pos, ms[k].start - 1) \o vals[k]
         \o SpliceFrom(body, ms[k].end, ms, vals, k + 1)

Splice(body, ms, vals) == SpliceFrom(body, 1, ms, vals, 1)

Occurrences(s, needle) ==
    {i \in 1..(Len(s) - Len(needle) + 1) : SubSeq(s, i, i + Len(needle) - 1) = needle}

HasBrace(s) == \E i \in 1..Len(s) : s[i] \in {"{", "}"}

\* the positions of the body that lie in no match
Literal(body) ==
    {i \in 1..Len(body) :
        \A k \in 1..Len(FindIter(body)) :
            i < FindIter(body)[k].start \/ i >= FindIter(body)[k].end}

TokenTexts == {MatchStr(prompt.prompt, Matches[k]) : k \in 1..Len(Matches)}

TimesMatched(item) ==
    Cardinality({k \in 1..Len(Matches) : MatchStr(prompt.prompt, Matches[k]) = item})

\* C1: when interpolate returns, it has made one draw per token occurrence and its
\* result is the body with the i-th occurrence replaced by the i-th draw and the
\* text between the tokens unchanged, whatever the catalogs hold.
C1_EachOccurrenceResolvedOnce ==
    pc = "query" =>
        /\ Len(draws) = Len(Matches)
        /\ interpolated = Splice(prompt.prompt, Matches, draws)

\* C2, as stated: when interpolate returns, a token text that occurred once or twice
\* has had one draw from its catalog per occurrence and occurs nowhere in the result.
C2_NoTokenTextRemains ==
    pc = "query" =>
        \A item \in TokenTexts :
            TimesMatched(item) \in {1, 2} =>
                /\ Len(draws) = Len(Matches)
                /\ \A k \in 1..Len(Matches) :
                      MatchStr(prompt.prompt, Matches[k]) = item =>
                          \E j \in 1..Len(FillIns(files[FillInFile(item)])) :
                              draws[k] = FillIns(files[FillInFile(item)])[j]
                /\ Occurrences(interpolated, item) = {}

BraceFree ==
    /\ \A k \in 1..Len(draws) : ~HasBrace(draws[k])
    /\ \A i \in Literal(prompt.prompt) : prompt.prompt[i] \notin {"{", "}"}

\* C2, amended: the same, when neither the drawn values nor the body's text outside
\* its tokens holds a brace.
C2_NoTokenTextRemainsBraceFree ==
    (pc = "query" /\ BraceFree) =>
        \A item \in TokenTexts :
            TimesMatched(item) \in {1, 2} =>
                /\ Len(draws) = Len(Matches)
                /\ \A k \in 1..Len(Matches) :
                      MatchStr(prompt.prompt, Matches[k]) = item =>
                          \E j \in 1..Len(FillIns(files[FillInFile(item)])) :
                              draws[k] = FillIns(files[FillInFile(item)])[j]
                /\ Occurrences(interpolated, item) = {}

\* the same token twice, two different draws, both occurrences gone
C2_Witness ==
    /\ pc = "query"
    /\ BraceFree
    /\ \E item \in TokenTexts :
          /\ TimesMatched(item) = 2
          /\ Occurrences(interpolated, item) = {}
    /\ Len(draws) = 2
    /\ draws[1] # draws[2]

Delimiters(line) == {i \in 1..Len(line) : line[i] = ";"}

FirstDelimiter(line) == CHOOSE i \in Delimiters(line) : \A j \in Delimiters(line) : i <= j

\* the template of a line: the text before its first delimiter names the kind, the
\* text after it is the body
TemplateOf(line) ==
    [prompt_type |-> IF Trim(Take(line, FirstDelimiter(line) - 1)) = STR_image
                     THEN "Image" ELSE "Text",
     prompt |-> Trim(Drop(line, FirstDelimiter(line)))]

IsComment(line) == line # <<>> /\ line[1] = "#"

\* C3, as stated: every line read adds its template, split at the first delimiter,
\* when it is no comment and has a delimiter, and adds nothing otherwise.
C3_SplitOnFirstDelimiter ==
    [][lineNo' = lineNo + 1 =>
          prompts' = IF ~IsComment(lastLine') /\ Delimiters(lastLine') # {}
                     THEN Append(prompts, TemplateOf(lastLine'))
                     ELSE prompts]_vars

\* C3, amended: every line read adds its template when it is no comment and has
\* exactly one delimiter, and adds nothing otherwise (no delimiter, or two or more).
C3_ExactlyOneDelimiter ==
    [][lineNo' = lineNo + 1 =>
          prompts' = IF ~IsComment(lastLine') /\ Cardinality(Delimiters(lastLine')) = 1
                     THEN Append(prompts, TemplateOf(lastLine'))
                     ELSE prompts]_vars

\* two lines read, the second with no delimiter: one template
C3_Witness ==
    /\ lineNo = 2
    /\ ~IsComment(lastLine)
    /\ Delimiters(lastLine) = {}
    /\ Len(prompts) = 1

----------------------------------------------------------------------------
(* Claims about the runs of main *)

Range(seq) == {seq[i] : i \in 1..Len(seq)}

NoEffects ==
    /\ renders = <<>>
    /\ nUpload = 0
    /\ uploads = 0
    /\ nPost = 0
    /\ posts = <<>>

\* C4: the prompt's kind alone fixes the function requested (set_text with {text}
\* for Text, set_meme with {top_text, bottom_text} for Image) and the branch taken:
\* a Text run never renders or uploads and posts without media, an Image run posts
\* only with media, after a render and an upload.
C4_KindFixesSchemaAndBranch ==
    /\ nQuery > 0 =>
          /\ prompt.prompt_type = "Text" =>
                /\ request.name = "set_text"
                /\ request.functions = [name |-> "set_text", required |-> {"text"}]
          /\ prompt.prompt_type = "Image" =>
                /\ request.name = "set_meme"
                /\ request.functions =
                       [name |-> "set_meme", required |-> {"top_text", "bottom_text"}]
    /\ prompt.prompt_type = "Text" =>
          /\ renders = <<>>
          /\ nUpload = 0
          /\ \A p \in Range(posts) : ~p.media
    /\ prompt.prompt_type = "Image" =>
          /\ \A p \in Range(posts) : p.media
          /\ posts # <<>> => (Len(renders) = 1 /\ uploads = 1)
          /\ nUpload > 0 => Len(renders) = 1
    /\ renders # <<>> => request.name = "set_meme"
    /\ (\E p \in Range(posts) : ~p.media) => request.name = "set_text"

\* an Image run that rendered, uploaded and posted
C4_Witness ==
    /\ pc = "exit"
    /\ outcome = "ok"
    /\ prompt.prompt_type = "Image"
    /\ request.name = "set_meme"
    /\ Len(renders) = 1
    /\ uploads = 1
    /\ Len(posts) = 1

ReplyLacks(field) == nQuery = 1 /\ pc # "query" /\ field \notin DOMAIN response

\* C5: an Image run whose reply lacks top_text or bottom_text, and a Text run whose
\* reply lacks text, fails: it never renders, uploads or posts, and does not end ok.
C5_MissingFieldIsFatal ==
    ((prompt.prompt_type = "Image" /\ (ReplyLacks("top_text") \/ ReplyLacks("bottom_text")))
     \/ (prompt.prompt_type = "Text" /\ ReplyLacks("text"))) =>
        /\ NoEffects
        /\ pc \in {"dispatch", "exit"}
        /\ pc = "exit" => outcome \in {"err", "panic"}

\* an Image run whose reply held top_text and no bottom_text, and failed
C5_Witness ==
    /\ prompt.prompt_type = "Image"
    /\ pc = "exit"
    /\ outcome = "panic"
    /\ nQuery = 1
    /\ "top_text" \in DOMAIN response
    /\ "bottom_text" \notin DOMAIN response
    /\ NoEffects

\* the catalog of a token is missing, or every line of it is a comment
BadCatalog(name) ==
    \/ name \notin DOMAIN files
    \/ \A i \in 1..Len(files[name]) : files[name][i] # <<>> /\ files[name][i][1] = "#"

SomeBadCatalog ==
    \E k \in 1..Len(Matches) : BadCatalog(FillInFile(MatchStr(prompt.prompt, Matches[k])))

\* C6: when the catalog of some token of the chosen template is missing or has no
\* entry left after the comments, interpolate returns no string, however many
\* tokens it had resolved, and the run fails with no request, render, upload or post.
C6_BadCatalogIsFatal ==
    SomeBadCatalog =>
        /\ pc \in {"interpolate", "exit"}
        /\ nQuery = 0
        /\ NoEffects
        /\ pc = "exit" => outcome \in {"err", "panic"}

\* the first token was resolved, the catalog of the second is all comments
C6_Witness ==
    /\ pc = "exit"
    /\ outcome = "panic"
    /\ Len(Matches) = 2
    /\ Len(draws) = 1
    /\ BadCatalog(<<"b">>)
    /\ nQuery = 0

C7_Inv ==
    /\ nQuery <= 1
    /\ nUpload <= 1
    /\ nPost <= 1
    /\ outcome \in {"err", "panic", "ok"} <=> pc = "exit"
    /\ nUpload > 0 => (nQuery = 1 /\ Len(renders) = 1)
    /\ nPost > 0 => nQuery = 1
    /\ (prompt.prompt_type = "Image" /\ nPost > 0) => (nUpload = 1 /\ uploads = 1)
    /\ \A p \in Range(posts) : p.media => uploads = 1
    /\ Len(posts) <= nPost
    /\ uploads <= nUpload

C7_Step ==
    /\ outcome' \in {"err", "panic"} =>
          /\ pc' = "exit"
          /\ nQuery' + nUpload' + nPost' <= nQuery + nUpload + nPost + 1
          /\ Len(renders') + uploads' + Len(posts') <= Len(renders) + uploads + Len(posts) + 1
          /\ pc = "query" => (renders' = renders /\ uploads' = uploads /\ posts' = posts)
          /\ pc = "upload" => (renders' = renders /\ posts' = posts)
          /\ pc = "post" => (renders' = renders /\ uploads' = uploads)
    /\ pc = "exit" => UNCHANGED vars

\* C7: every network operation is attempted at most once; a failed completion call,
\* upload or post ends the run at once with nothing after it; a post is made only
\* after the Image run's upload succeeded, and what was published before a failure
\* stays.
C7_FailFastNoRetry == []C7_Inv /\ [][C7_Step]_vars

\* the upload succeeded and the post failed
C7_Witness ==
    /\ pc = "exit"
    /\ outcome = "err"
    /\ uploads = 1
    /\ nPost = 1
    /\ posts = <<>>

Clean(text) == \A i \in 1..Len(text) : text[i] \notin Censored

\* C8: what is rendered and what is posted is the censored reply: the captions are
\* the censored top_text and bottom_text, the Text run's status is the censored
\* text, the Image run's status is empty, and none of them holds a censored word.
C8_CensoredBeforeSurfaced ==
    /\ \A r \in Range(renders) :
          /\ r.top_text = replace_with_offsets(response["top_text"])
          /\ r.bottom_text = replace_with_offsets(response["bottom_text"])
          /\ Clean(r.top_text)
          /\ Clean(r.bottom_text)
    /\ \A p \in Range(posts) :
          /\ p.status = IF p.media THEN <<>> ELSE replace_with_offsets(response["text"])
          /\ Clean(p.status)

\* a Text run posted a reply that held a censored word
C8_Witness ==
    /\ prompt.prompt_type = "Text"
    /\ Len(posts) = 1
    /\ ~Clean(response["text"])
    /\ posts[1].status # response["text"]

Centered(text_width, image_width) ==
    IF text_width < image_width THEN (image_width - text_width) \div 2 ELSE 0

\* C9: each caption's x is (image_width - text_width) / 2 when the text is narrower
\* than the image and 0 otherwise; it is never negative, the subtraction never
\* underflows, and the last (black) pass is drawn at x.
C9_CaptionOffset ==
    \A r \in Range(renders) :
        /\ r.top.x = Centered(r.top_width, r.image_width)
        /\ r.bottom.x = Centered(r.bottom_width, r.image_width)
        /\ r.top.x >= 0 /\ r.bottom.x >= 0
        /\ ~r.top.underflow /\ ~r.bottom.underflow
        /\ r.top_at[Len(Offsets)] = r.top.x
        /\ r.bottom_at[Len(Offsets)] = r.bottom.x

\* one caption centred, the other as wide as the image or wider
C9_Witness ==
    \E r \in Range(renders) :
        /\ r.top_width < r.image_width
        /\ r.top.x > 0
        /\ r.bottom_width >= r.image_width
        /\ r.bottom.x = 0

\* s[i + 1 .. j - 1] for the first two quotes i < j of s
BetweenFirstTwoQuotes(s, id) ==
    \E i, j \in Quotes(s) :
        /\ i < j
        /\ \A k \in Quotes(s) : k = i \/ k >= j
        /\ id = SubSeq(s, i + 1, j - 1)

\* C10: the image handed to the renderer is the text strictly between the first and
\* the second double quote of the interpolated prompt; an Image run whose
\* interpolated prompt has fewer than two double quotes fails without render,
\* upload or post.
C10_ImageFromInterpolatedPrompt ==
    /\ \A r \in Range(renders) : BetweenFirstTwoQuotes(interpolated, r.image)
    /\ (prompt.prompt_type = "Image" /\ Cardinality(Quotes(interpolated)) < 2) =>
          /\ NoEffects
          /\ pc \notin {"upload", "post"}
          /\ outcome # "ok"

\* a render whose image is not what the raw template holds between its quotes
C10_Witness ==
    \E r \in Range(renders) :
        /\ BetweenFirstTwoQuotes(interpolated, r.image)
        /\ ~BetweenFirstTwoQuotes(prompt.prompt, r.image)

\* an Image run with no quote in its prompt that got a full reply and failed
C10_WitnessFewQuotes ==
    /\ prompt.prompt_type = "Image"
    /\ Quotes(interpolated) = {}
    /\ DOMAIN response = FieldNames
    /\ pc = "exit"
    /\ outcome = "panic"

====
